---- MODULE Spec2Model ----
(***************************************************************************)
(* The taunt subsystem of sources/src/taunt.cpp, with the part of          *)
(* sources/src/character.cpp that writes its configuration.                *)
(*                                                                         *)
(* A std::string is a sequence of one-character strings, a tag bit mask is *)
(* the set of the tag names whose bit is set, a file name is a TLA+ string. *)
(* std::cout is modelled by the lines one operation appends to it.         *)
(***************************************************************************)
EXTENDS Integers, Sequences, FiniteSets, TLC

VARIABLES
    Glob,                \* cGlobals: the fields taunt.cpp reads or writes
    s_taunts,            \* taunt.cpp:43, category -> sequence of TauntEntry
    s_tauntsLoaded,      \* taunt.cpp:44
    s_loadedConfigFile,  \* taunt.cpp:45
    disk,                \* the file system: file name -> the name of its content, or Absent
    written,             \* the lines of the content named "Written"
    call,                \* the operation the last step ran, with its argument
    shouldTaunt,         \* what ShouldTauntNow returned in that call, or "none"
    category,            \* the category PrintRandomTaunt was called with, or "none"
    rnd,                 \* the std::rand() results that call consumed, in order
    opened,              \* the file names that call handed to std::ifstream
    out                  \* the lines that call wrote to std::cout

vars == <<Glob, s_taunts, s_tauntsLoaded, s_loadedConfigFile, disk, written,
          call, shouldTaunt, category, rnd, opened, out>>

(***************************************************************************)
(* Bounds of the model.                                                    *)
(***************************************************************************)
\* std::rand() returns DrawSamples shifted by 100 * k, k in 0..RandWraps.
RandWraps == 1
\* The std::rand() results offered to the entry selection are 0..MaxRand.
MaxRand == 4
\* The corpora SpecParse draws have at most MaxLines lines.
MaxLines == 4

Min(S) == CHOOSE x \in S : \A y \in S : x <= y

(***************************************************************************)
(* Enumerations.                                                           *)
(***************************************************************************)
TauntCategory ==
    {"GENERAL", "CAPTURE", "USER_BLUNDER", "ENGINE_BLUNDER", "LOSING", "WINNING",
     "CRUSHING", "ADVANTAGE", "BALANCE", "DISADVANTAGE", "ESCAPE", "GAINING"}

TauntTag == {"RUDE", "POLITE", "SELFDEP", "STREET"}

\* The event types PrintTaunt compares against; TAUNT_OTHER stands for every
\* other int.
TauntEvents ==
    {"TAUNT_CAPTURE", "TAUNT_WINNING", "TAUNT_ADVANTAGE", "TAUNT_BALANCE",
     "TAUNT_DISADVANTAGE", "TAUNT_LOSING", "TAUNT_CRUSHING", "TAUNT_OTHER"}

(***************************************************************************)
(* Strings.                                                                *)
(***************************************************************************)
Whitespace == {" ", "\t", "\r", "\n"}

\* std::string::find(ch, from) with 1-based positions; 0 is npos.
Find(s, ch, from) ==
    LET I == {i \in from..Len(s) : s[i] = ch}
    IN  IF I = {} THEN 0 ELSE Min(I)

Trim(s) ==
    LET I == {i \in 1..Len(s) : s[i] \notin Whitespace}
    IN  IF I = {} THEN <<>>
        ELSE SubSeq(s, Min(I), CHOOSE e \in I : \A i \in I : i <= e)

\* CategoryFromName matching a name whatever its case.
CategoryFromName_IgnoreCase(name) ==
    CASE name = <<"G","E","N","E","R","A","L">> -> "GENERAL"
      [] name = <<"C","A","P","T","U","R","E">> -> "CAPTURE"
      [] name = <<"U","S","E","R","_","B","L","U","N","D","E","R">> -> "USER_BLUNDER"
      [] name = <<"E","N","G","I","N","E","_","B","L","U","N","D","E","R">> -> "ENGINE_BLUNDER"
      [] name = <<"L","O","S","I","N","G">> -> "LOSING"
      [] name = <<"W","I","N","N","I","N","G">> -> "WINNING"
      [] name = <<"C","R","U","S","H","I","N","G">> -> "CRUSHING"
      [] name = <<"A","D","V","A","N","T","A","G","E">> -> "ADVANTAGE"
      [] name = <<"B","A","L","A","N","C","E">> -> "BALANCE"
      [] name = <<"D","I","S","A","D","V","A","N","T","A","G","E">> -> "DISADVANTAGE"
      [] name = <<"E","S","C","A","P","E">> -> "ESCAPE"
      [] name = <<"G","A","I","N","I","N","G">> -> "GAINING"
      [] name = <<"w","i","n","n","i","n","g">> -> "WINNING"
      [] OTHER -> "GENERAL"

CategoryFromName(name) ==
    CASE name = <<"G","E","N","E","R","A","L">> -> "GENERAL"
      [] name = <<"C","A","P","T","U","R","E">> -> "CAPTURE"
      [] name = <<"U","S","E","R","_","B","L","U","N","D","E","R">> -> "USER_BLUNDER"
      [] name = <<"E","N","G","I","N","E","_","B","L","U","N","D","E","R">> -> "ENGINE_BLUNDER"
      [] name = <<"L","O","S","I","N","G">> -> "LOSING"
      [] name = <<"W","I","N","N","I","N","G">> -> "WINNING"
      [] name = <<"C","R","U","S","H","I","N","G">> -> "CRUSHING"
      [] name = <<"A","D","V","A","N","T","A","G","E">> -> "ADVANTAGE"
      [] name = <<"B","A","L","A","N","C","E">> -> "BALANCE"
      [] name = <<"D","I","S","A","D","V","A","N","T","A","G","E">> -> "DISADVANTAGE"
      [] name = <<"E","S","C","A","P","E">> -> "ESCAPE"
      [] name = <<"G","A","I","N","I","N","G">> -> "GAINING"
      [] OTHER -> "GENERAL"

TagFromName(name) ==
    CASE name = <<"R","U","D","E">> -> {"RUDE"}
      [] name = <<"P","O","L","I","T","E">> -> {"POLITE"}
      [] name = <<"S","E","L","F","D","E","P">> -> {"SELFDEP"}
      [] name = <<"S","T","R","E","E","T">> -> {"STREET"}
      [] OTHER -> {}

(***************************************************************************)
(* The corpus files of the model.                                          *)
(***************************************************************************)
TauntsTxt ==
    << <<"#"," ","c">>,
       <<"g","1">>,
       <<>>,
       <<"[","C","A","P","T","U","R","E","]">>,
       <<"c","1">>,
       <<"[","U","S","E","R","_","B","L","U","N","D","E","R","]">>,
       <<"u","1">>,
       <<"[","E","N","G","I","N","E","_","B","L","U","N","D","E","R","]">>,
       <<"e","1">>,
       <<"[","W","I","N","N","I","N","G",";","R","U","D","E","]">>,
       <<"w","r">>,
       <<"[","W","I","N","N","I","N","G",";","P","O","L","I","T","E","]">>,
       <<"w","p">>,
       <<"[","W","I","N","N","I","N","G","]">>,
       <<"w","n">>,
       <<"[","W","I","N","N","I","N","G",";","R","U","D","E",";","P","O","L","I","T","E","]">>,
       <<"w","b">>,
       <<"[","C","R","U","S","H","I","N","G",";","R","U","D","E","]">>,
       <<"x","r">>,
       <<"[","C","R","U","S","H","I","N","G",";","P","O","L","I","T","E",";","R","U","D","E","]">>,
       <<"x","b">>,
       <<"[","A","D","V","A","N","T","A","G","E",";"," ","P","O","L","I","T","E"," ",";","S","T","R","E","E","T","]">>,
       <<"a","p">>,
       <<"[","B","A","L","A","N","C","E","]">>,
       <<"b","1">>,
       <<"[","E","S","C","A","P","E","]">>,
       <<"s","1">>,
       <<"[","G","A","I","N","I","N","G","]">>,
       <<"n","1">>,
       <<"[","L","O","S","I","N","G","]">>,
       <<"l","1">> >>

CustomTxt ==
    << <<";"," ","c">>,
       <<" ","q","0"," ">>,
       <<"[","L","O","S","I","N","G",";","S","E","L","F","D","E","P","]">>,
       <<"l","2">>,
       <<"[","B","o","g","u","s",";","R","U","D","E","]">>,
       <<"q","1">>,
       <<"\t","["," ","W","I","N","N","I","N","G"," ",";"," ","L","O","U","D"," ",";"," ","R","U","D","E"," ","]">>,
       <<"w","2">>,
       <<"[",";","P","O","L","I","T","E","]">>,
       <<"w","3">>,
       <<"[","]">>,
       <<"w","4">> >>

EmptyTxt ==
    << <<"#"," ","n","o","t","h","i","n","g">>,
       <<"[","G","E","N","E","R","A","L","]">>,
       <<" ">> >>

\* The lines of the content a file holds.
FileLines(content) ==
    CASE content = "TauntsTxt" -> TauntsTxt
      [] content = "CustomTxt" -> CustomTxt
      [] content = "EmptyTxt" -> EmptyTxt
      [] content = "Written" -> written

(***************************************************************************)
(* The corpus loader.                                                      *)
(***************************************************************************)
Absent == "absent"

\* The tag loop of a section header: pos is the position of a ';' in section.
RECURSIVE SectionTags(_, _, _)
SectionTags(section, pos, currentTags) ==
    IF pos = 0 THEN currentTags
    ELSE LET next == Find(section, ";", pos + 1)
             tag  == Trim(IF next = 0 THEN SubSeq(section, pos + 1, Len(section))
                                      ELSE SubSeq(section, pos + 1, next - 1))
         IN  SectionTags(section, next,
                         IF tag # <<>> THEN currentTags \cup TagFromName(tag)
                                       ELSE currentTags)

\* LoadLine adding a header's tags to the tags of the section before.
LoadLine_TagsAccumulate(st, rawLine) ==
    LET line == Trim(rawLine)
    IN  IF line = <<>> THEN st
        ELSE IF line[1] = "#" \/ line[1] = ";" THEN st
        ELSE IF line[1] = "[" /\ line[Len(line)] = "]"
        THEN LET section == Trim(SubSeq(line, 2, Len(line) - 1))
             IN  IF section = <<>> THEN st
                 ELSE LET pos  == Find(section, ";", 1)
                          base == Trim(IF pos = 0 THEN section
                                                  ELSE SubSeq(section, 1, pos - 1))
                      IN  [st EXCEPT
                             !.current = IF base # <<>> THEN CategoryFromName(base) ELSE @,
                             !.currentTags = SectionTags(section, pos, st.currentTags)]
        ELSE [st EXCEPT !.taunts[st.current] =
                           Append(@, [text |-> line, tags |-> st.currentTags])]

\* One iteration of the getline loop; st = [current, currentTags, taunts].
LoadLine(st, rawLine) ==
    LET line == Trim(rawLine)
    IN  IF line = <<>> THEN st
        ELSE IF line[1] = "#" \/ line[1] = ";" THEN st
        ELSE IF line[1] = "[" /\ line[Len(line)] = "]"
        THEN LET section == Trim(SubSeq(line, 2, Len(line) - 1))
             IN  IF section = <<>> THEN st
                 ELSE LET pos  == Find(section, ";", 1)
                          base == Trim(IF pos = 0 THEN section
                                                  ELSE SubSeq(section, 1, pos - 1))
                      IN  [st EXCEPT
                             !.current = IF base # <<>> THEN CategoryFromName(base) ELSE @,
                             !.currentTags = SectionTags(section, pos, {})]
        ELSE [st EXCEPT !.taunts[st.current] =
                           Append(@, [text |-> line, tags |-> st.currentTags])]

RECURSIVE LoadLines(_, _)
LoadLines(st, lines) ==
    IF lines = <<>> THEN st
    ELSE LoadLines(LoadLine(st, Head(lines)), Tail(lines))

\* std::ifstream in(fileName) succeeds.
CanOpen(fileName) == fileName \in DOMAIN disk /\ disk[fileName] # Absent

\* m is the machine during one call: the index and its two flags, with the
\* files opened, the lines written, the draws consumed and the category selected
\* so far (see Start).
LoadTauntsFile(m, fileName) ==
    LET m1 == [m EXCEPT !.opened = Append(@, fileName)]
    IN  IF ~CanOpen(fileName) THEN [ok |-> FALSE, m |-> m1]
        ELSE [ok |-> TRUE,
              m  |-> [m1 EXCEPT !.taunts =
                        LoadLines([current |-> "GENERAL", currentTags |-> {},
                                   taunts |-> m1.taunts],
                                  FileLines(disk[fileName])).taunts]]

RECURSIVE SumLen(_, _)
SumLen(taunts, cats) ==
    IF cats = {} THEN 0
    ELSE LET c == CHOOSE x \in cats : TRUE
         IN  Len(taunts[c]) + SumLen(taunts, cats \ {c})

\* EnsureTauntsLoaded writing its report whatever Glob.isNoisy holds.
EnsureTauntsLoaded_AlwaysReports(m) ==
    IF m.loaded /\ m.loadedFile = Glob.tauntFile THEN m
    ELSE LET cleared   == [m EXCEPT !.taunts = [c \in TauntCategory |-> <<>>]]
             requested == IF Glob.tauntFile = "" THEN "taunts.txt" ELSE Glob.tauntFile
             first     == LoadTauntsFile(cleared, requested)
             retry     == ~first.ok /\ requested # "taunts.txt"
             second    == IF retry THEN LoadTauntsFile(first.m, "taunts.txt") ELSE first
             used      == IF retry THEN "taunts.txt" ELSE requested
             total     == SumLen(second.m.taunts, TauntCategory)
         IN  [second.m EXCEPT
                !.out = Append(@, [kind |-> "loaded", used |-> used, total |-> total]),
                !.loadedFile = Glob.tauntFile,
                !.loaded = TRUE]

\* EnsureTauntsLoaded loading again while the last load left the index empty.
EnsureTauntsLoaded_RetryWhenEmpty(m) ==
    IF m.loaded /\ m.loadedFile = Glob.tauntFile /\ SumLen(m.taunts, TauntCategory) > 0 THEN m
    ELSE LET cleared   == [m EXCEPT !.taunts = [c \in TauntCategory |-> <<>>]]
             requested == IF Glob.tauntFile = "" THEN "taunts.txt" ELSE Glob.tauntFile
             first     == LoadTauntsFile(cleared, requested)
             retry     == ~first.ok /\ requested # "taunts.txt"
             second    == IF retry THEN LoadTauntsFile(first.m, "taunts.txt") ELSE first
             used      == IF retry THEN "taunts.txt" ELSE requested
             total     == SumLen(second.m.taunts, TauntCategory)
             report    == IF ~second.ok \/ total = 0
                          THEN [kind |-> "load_failed", requested |-> requested,
                                used |-> used, total |-> total]
                          ELSE [kind |-> "loaded", used |-> used, total |-> total]
         IN  [second.m EXCEPT
                !.out = IF Glob.isNoisy THEN Append(@, report) ELSE @,
                !.loadedFile = Glob.tauntFile,
                !.loaded = TRUE]

\* EnsureTauntsLoaded without the clearing loop.
EnsureTauntsLoaded_NoClear(m) ==
    IF m.loaded /\ m.loadedFile = Glob.tauntFile THEN m
    ELSE LET requested == IF Glob.tauntFile = "" THEN "taunts.txt" ELSE Glob.tauntFile
             first     == LoadTauntsFile(m, requested)
             retry     == ~first.ok /\ requested # "taunts.txt"
             second    == IF retry THEN LoadTauntsFile(first.m, "taunts.txt") ELSE first
             used      == IF retry THEN "taunts.txt" ELSE requested
             total     == SumLen(second.m.taunts, TauntCategory)
             report    == IF ~second.ok \/ total = 0
                          THEN [kind |-> "load_failed", requested |-> requested,
                                used |-> used, total |-> total]
                          ELSE [kind |-> "loaded", used |-> used, total |-> total]
         IN  [second.m EXCEPT
                !.out = IF Glob.isNoisy THEN Append(@, report) ELSE @,
                !.loadedFile = Glob.tauntFile,
                !.loaded = TRUE]

\* EnsureTauntsLoaded retrying the default name whatever name failed.
EnsureTauntsLoaded_AlwaysFallback(m) ==
    IF m.loaded /\ m.loadedFile = Glob.tauntFile THEN m
    ELSE LET cleared   == [m EXCEPT !.taunts = [c \in TauntCategory |-> <<>>]]
             requested == IF Glob.tauntFile = "" THEN "taunts.txt" ELSE Glob.tauntFile
             first     == LoadTauntsFile(cleared, requested)
             retry     == ~first.ok
             second    == IF retry THEN LoadTauntsFile(first.m, "taunts.txt") ELSE first
             used      == IF retry THEN "taunts.txt" ELSE requested
             total     == SumLen(second.m.taunts, TauntCategory)
             report    == IF ~second.ok \/ total = 0
                          THEN [kind |-> "load_failed", requested |-> requested,
                                used |-> used, total |-> total]
                          ELSE [kind |-> "loaded", used |-> used, total |-> total]
         IN  [second.m EXCEPT
                !.out = IF Glob.isNoisy THEN Append(@, report) ELSE @,
                !.loadedFile = Glob.tauntFile,
                !.loaded = TRUE]

EnsureTauntsLoaded(m) ==
    IF m.loaded /\ m.loadedFile = Glob.tauntFile THEN m
    ELSE LET cleared   == [m EXCEPT !.taunts = [c \in TauntCategory |-> <<>>]]
             requested == IF Glob.tauntFile = "" THEN "taunts.txt" ELSE Glob.tauntFile
             first     == LoadTauntsFile(cleared, requested)
             retry     == ~first.ok /\ requested # "taunts.txt"
             second    == IF retry THEN LoadTauntsFile(first.m, "taunts.txt") ELSE first
             used      == IF retry THEN "taunts.txt" ELSE requested
             total     == SumLen(second.m.taunts, TauntCategory)
             report    == IF ~second.ok \/ total = 0
                          THEN [kind |-> "load_failed", requested |-> requested,
                                used |-> used, total |-> total]
                          ELSE [kind |-> "loaded", used |-> used, total |-> total]
         IN  [second.m EXCEPT
                !.out = IF Glob.isNoisy THEN Append(@, report) ELSE @,
                !.loadedFile = Glob.tauntFile,
                !.loaded = TRUE]

(***************************************************************************)
(* The speak gate, the rudeness filter and the selection.                  *)
(* A machine m also carries rnd, the std::rand() results consumed so far,  *)
(* and category; rs is the sequence of results std::rand() will return.    *)
(***************************************************************************)
NextRand(m, rs) == rs[Len(m.rnd) + 1]

Consume(m, rs) == [m EXCEPT !.rnd = Append(@, NextRand(m, rs))]

\* ShouldTauntNow with the intensity >= 100 test ahead of the losing dampener.
ShouldTauntNow_IntensityFirst(m, eventType, rs) ==
    IF ~Glob.useTaunting THEN [result |-> FALSE, m |-> m]
    ELSE IF Glob.tauntIntensity <= 0 THEN [result |-> FALSE, m |-> m]
    ELSE IF Glob.tauntIntensity >= 100 THEN [result |-> TRUE, m |-> m]
    ELSE LET losingEvent == eventType = "TAUNT_DISADVANTAGE" \/ eventType = "TAUNT_LOSING"
             dampened    == losingEvent /\ Glob.tauntWhenLosing < 100
             m1          == IF dampened THEN Consume(m, rs) ELSE m
         IN  IF dampened /\ (NextRand(m, rs) % 100) >= Glob.tauntWhenLosing
             THEN [result |-> FALSE, m |-> m1]
             ELSE [result |-> (NextRand(m1, rs) % 100) < Glob.tauntIntensity,
                   m |-> Consume(m1, rs)]

\* [result, m]: the value returned and the machine after the draws.
ShouldTauntNow(m, eventType, rs) ==
    IF ~Glob.useTaunting THEN [result |-> FALSE, m |-> m]
    ELSE IF Glob.tauntIntensity <= 0 THEN [result |-> FALSE, m |-> m]
    ELSE LET losingEvent == eventType = "TAUNT_DISADVANTAGE" \/ eventType = "TAUNT_LOSING"
             dampened    == losingEvent /\ Glob.tauntWhenLosing < 100
             m1          == IF dampened THEN Consume(m, rs) ELSE m
         IN  IF dampened /\ (NextRand(m, rs) % 100) >= Glob.tauntWhenLosing
             THEN [result |-> FALSE, m |-> m1]
             ELSE IF Glob.tauntIntensity >= 100 THEN [result |-> TRUE, m |-> m1]
             ELSE [result |-> (NextRand(m1, rs) % 100) < Glob.tauntIntensity,
                   m |-> Consume(m1, rs)]

\* PassRudenessFilter with the low-rudeness test made strict.
PassRudenessFilter_StrictLow(e) ==
    IF e.tags \cap {"RUDE", "POLITE"} = {} THEN TRUE
    ELSE LET r == Glob.tauntRudeness
         IN  IF r < 33 /\ "RUDE" \in e.tags THEN FALSE
             ELSE IF r >= 67 /\ "POLITE" \in e.tags THEN FALSE
             ELSE TRUE

PassRudenessFilter(e) ==
    IF e.tags \cap {"RUDE", "POLITE"} = {} THEN TRUE
    ELSE LET r == Glob.tauntRudeness
         IN  IF r <= 33 /\ "RUDE" \in e.tags THEN FALSE
             ELSE IF r >= 67 /\ "POLITE" \in e.tags THEN FALSE
             ELSE TRUE

\* The indices (1-based) of the entries of v that pass the filter, in order.
Candidates(v) == SelectSeq([i \in 1..Len(v) |-> i], LAMBDA i : PassRudenessFilter(v[i]))

\* PrintRandomTaunt without the fall back to the full list.
PrintRandomTaunt_NoFallback(m, cat, rs) ==
    LET v  == m.taunts[cat]
        m0 == [m EXCEPT !.category = cat]
    IN  IF v = <<>> THEN m0
        ELSE LET candidates == SelectSeq([i \in 1..Len(v) |-> i],
                                         LAMBDA i : PassRudenessFilter(v[i]))
                 r          == NextRand(m0, rs)
             IN  IF candidates = <<>> THEN m0
                 ELSE [Consume(m0, rs) EXCEPT
                         !.out = Append(@, [kind |-> "taunt",
                                            text |-> v[candidates[(r % Len(candidates)) + 1]].text])]

PrintRandomTaunt(m, cat, rs) ==
    LET v  == m.taunts[cat]
        m0 == [m EXCEPT !.category = cat]
    IN  IF v = <<>> THEN m0
        ELSE LET candidates == Candidates(v)
                 r          == NextRand(m0, rs)
                 idx        == IF candidates # <<>>
                               THEN candidates[(r % Len(candidates)) + 1]
                               ELSE (r % Len(v)) + 1
             IN  [Consume(m0, rs) EXCEPT
                    !.out = Append(@, [kind |-> "taunt", text |-> v[idx].text])]

\* PrintGenericTaunt, PrintCaptureTaunt, ... PrintGainingTaunt: each is
\* EnsureTauntsLoaded() followed by PrintRandomTaunt(its category).
PrintCategoryTaunt(m, cat, rs) == PrintRandomTaunt(EnsureTauntsLoaded(m), cat, rs)

(***************************************************************************)
(* PrintTaunt.                                                             *)
(***************************************************************************)
\* PrintTauntTarget with the operands of the delta swapped.
PrintTauntTarget_SwappedDelta(eventType) ==
    IF Glob.previousValue = 8888 THEN "GENERAL"
    ELSE LET delta       == Glob.previousValue - Glob.gameValue
             isSmallGain == delta > 30 /\ delta < 60
         IN  IF delta > 200 THEN "USER_BLUNDER"
             ELSE IF delta < -200 THEN "ENGINE_BLUNDER"
             ELSE IF isSmallGain /\ eventType = "TAUNT_BALANCE" THEN "ESCAPE"
             ELSE IF isSmallGain /\ eventType = "TAUNT_ADVANTAGE" THEN "GAINING"
             ELSE CASE eventType = "TAUNT_CAPTURE" -> "CAPTURE"
                    [] eventType = "TAUNT_WINNING" -> "WINNING"
                    [] eventType = "TAUNT_ADVANTAGE" -> "ADVANTAGE"
                    [] eventType = "TAUNT_BALANCE" -> "BALANCE"
                    [] eventType = "TAUNT_DISADVANTAGE" -> "DISADVANTAGE"
                    [] eventType = "TAUNT_LOSING" -> "LOSING"
                    [] eventType = "TAUNT_CRUSHING" -> "CRUSHING"
                    [] OTHER -> "GENERAL"

\* PrintTauntTarget without the test for the unset marker.
PrintTauntTarget_NoUnsetTest(eventType) ==
    LET delta       == Glob.gameValue - Glob.previousValue
        isSmallGain == delta > 30 /\ delta < 60
    IN  IF delta > 200 THEN "USER_BLUNDER"
        ELSE IF delta < -200 THEN "ENGINE_BLUNDER"
        ELSE IF isSmallGain /\ eventType = "TAUNT_BALANCE" THEN "ESCAPE"
        ELSE IF isSmallGain /\ eventType = "TAUNT_ADVANTAGE" THEN "GAINING"
        ELSE CASE eventType = "TAUNT_CAPTURE" -> "CAPTURE"
               [] eventType = "TAUNT_WINNING" -> "WINNING"
               [] eventType = "TAUNT_ADVANTAGE" -> "ADVANTAGE"
               [] eventType = "TAUNT_BALANCE" -> "BALANCE"
               [] eventType = "TAUNT_DISADVANTAGE" -> "DISADVANTAGE"
               [] eventType = "TAUNT_LOSING" -> "LOSING"
               [] eventType = "TAUNT_CRUSHING" -> "CRUSHING"
               [] OTHER -> "GENERAL"

\* PrintTauntTarget with the small-gain window closed at both ends.
PrintTauntTarget_ClosedWindow(eventType) ==
    IF Glob.previousValue = 8888 THEN "GENERAL"
    ELSE LET delta       == Glob.gameValue - Glob.previousValue
             isSmallGain == delta >= 30 /\ delta <= 60
         IN  IF delta > 200 THEN "USER_BLUNDER"
             ELSE IF delta < -200 THEN "ENGINE_BLUNDER"
             ELSE IF isSmallGain /\ eventType = "TAUNT_BALANCE" THEN "ESCAPE"
             ELSE IF isSmallGain /\ eventType = "TAUNT_ADVANTAGE" THEN "GAINING"
             ELSE CASE eventType = "TAUNT_CAPTURE" -> "CAPTURE"
                    [] eventType = "TAUNT_WINNING" -> "WINNING"
                    [] eventType = "TAUNT_ADVANTAGE" -> "ADVANTAGE"
                    [] eventType = "TAUNT_BALANCE" -> "BALANCE"
                    [] eventType = "TAUNT_DISADVANTAGE" -> "DISADVANTAGE"
                    [] eventType = "TAUNT_LOSING" -> "LOSING"
                    [] eventType = "TAUNT_CRUSHING" -> "CRUSHING"
                    [] OTHER -> "GENERAL"

\* The category of the Print...Taunt function PrintTaunt calls once the gate
\* has passed.
PrintTauntTarget(eventType) ==
    IF Glob.previousValue = 8888 THEN "GENERAL"
    ELSE LET delta       == Glob.gameValue - Glob.previousValue
             isSmallGain == delta > 30 /\ delta < 60
         IN  IF delta > 200 THEN "USER_BLUNDER"
             ELSE IF delta < -200 THEN "ENGINE_BLUNDER"
             ELSE IF isSmallGain /\ eventType = "TAUNT_BALANCE" THEN "ESCAPE"
             ELSE IF isSmallGain /\ eventType = "TAUNT_ADVANTAGE" THEN "GAINING"
             ELSE CASE eventType = "TAUNT_CAPTURE" -> "CAPTURE"
                    [] eventType = "TAUNT_WINNING" -> "WINNING"
                    [] eventType = "TAUNT_ADVANTAGE" -> "ADVANTAGE"
                    [] eventType = "TAUNT_BALANCE" -> "BALANCE"
                    [] eventType = "TAUNT_DISADVANTAGE" -> "DISADVANTAGE"
                    [] eventType = "TAUNT_LOSING" -> "LOSING"
                    [] eventType = "TAUNT_CRUSHING" -> "CRUSHING"
                    [] OTHER -> "GENERAL"

\* The machine at the start of a call.
Start ==
    [taunts |-> s_taunts, loaded |-> s_tauntsLoaded, loadedFile |-> s_loadedConfigFile,
     opened |-> <<>>, out |-> <<>>, rnd |-> <<>>, category |-> "none"]

\* The state a call leaves.
Return(op, eventType, m, gate, glob) ==
    /\ s_taunts' = m.taunts
    /\ s_tauntsLoaded' = m.loaded
    /\ s_loadedConfigFile' = m.loadedFile
    /\ opened' = m.opened
    /\ out' = m.out
    /\ rnd' = m.rnd
    /\ category' = m.category
    /\ call' = [op |-> op, eventType |-> eventType]
    /\ shouldTaunt' = gate
    /\ Glob' = glob
    /\ UNCHANGED <<disk, written>>

PrintTaunt(eventType, rs) ==
    LET m0   == EnsureTauntsLoaded(Start)
        gate == ShouldTauntNow(m0, eventType, rs)
    IN  IF ~gate.result
        THEN Return("PrintTaunt", eventType, gate.m, FALSE, Glob)
        ELSE Return("PrintTaunt", eventType,
                    PrintCategoryTaunt(gate.m, PrintTauntTarget(eventType), rs),
                    TRUE, [Glob EXCEPT !.currentTaunt = eventType])

(***************************************************************************)
(* The per-category operations.                                            *)
(***************************************************************************)
PublicCategoryCall(op, cat, rs) ==
    Return(op, "none", PrintCategoryTaunt(Start, cat, rs), "none", Glob)

PrintGenericTaunt(rs) == PublicCategoryCall("PrintGenericTaunt", "GENERAL", rs)

PrintCaptureTaunt(rs) == PublicCategoryCall("PrintCaptureTaunt", "CAPTURE", rs)

PrintWinningTaunt(rs) == PublicCategoryCall("PrintWinningTaunt", "WINNING", rs)

PrintAdvantageTaunt(rs) == PublicCategoryCall("PrintAdvantageTaunt", "ADVANTAGE", rs)

PrintBalanceTaunt(rs) == PublicCategoryCall("PrintBalanceTaunt", "BALANCE", rs)

PrintDisdvantageTaunt(rs) == PublicCategoryCall("PrintDisdvantageTaunt", "DISADVANTAGE", rs)

PrintLosingTaunt(rs) == PublicCategoryCall("PrintLosingTaunt", "LOSING", rs)

PrintCrushingTaunt(rs) == PublicCategoryCall("PrintCrushingTaunt", "CRUSHING", rs)

PrintUserBlunderTaunt(rs) == PublicCategoryCall("PrintUserBlunderTaunt", "USER_BLUNDER", rs)

PrintEngineBlunderTaunt(rs) == PublicCategoryCall("PrintEngineBlunderTaunt", "ENGINE_BLUNDER", rs)

PrintEngineEscapeTaunt(rs) == PublicCategoryCall("PrintEngineEscapeTaunt", "ESCAPE", rs)

PrintGainingTaunt(rs) == PublicCategoryCall("PrintGainingTaunt", "GAINING", rs)

PublicOps ==
    {"PrintTaunt", "PrintGenericTaunt", "PrintCaptureTaunt", "PrintWinningTaunt",
     "PrintAdvantageTaunt", "PrintBalanceTaunt", "PrintDisdvantageTaunt",
     "PrintLosingTaunt", "PrintCrushingTaunt", "PrintUserBlunderTaunt",
     "PrintEngineBlunderTaunt", "PrintEngineEscapeTaunt", "PrintGainingTaunt"}

AnyCategoryTaunt(rs) ==
    \/ PrintGenericTaunt(rs)
    \/ PrintCaptureTaunt(rs)
    \/ PrintWinningTaunt(rs)
    \/ PrintAdvantageTaunt(rs)
    \/ PrintBalanceTaunt(rs)
    \/ PrintDisdvantageTaunt(rs)
    \/ PrintLosingTaunt(rs)
    \/ PrintCrushingTaunt(rs)
    \/ PrintUserBlunderTaunt(rs)
    \/ PrintEngineBlunderTaunt(rs)
    \/ PrintEngineEscapeTaunt(rs)
    \/ PrintGainingTaunt(rs)

(***************************************************************************)
(* The collaborators: the configuration, the scores, the file system.      *)
(* A step of theirs runs no operation of the subsystem: it leaves the      *)
(* index alone and the record of the last call empty.                      *)
(***************************************************************************)
NoCall(op) ==
    /\ call' = [op |-> op, eventType |-> "none"]
    /\ shouldTaunt' = "none"
    /\ category' = "none"
    /\ rnd' = <<>>
    /\ opened' = <<>>
    /\ out' = <<>>
    /\ UNCHANGED <<s_taunts, s_tauntsLoaded, s_loadedConfigFile>>

\* The taunt part of a CharacterProfile as InitDefaultCharacterProfile fills it.
InitDefaultCharacterProfile ==
    [tauntingEnabled |-> TRUE, tauntFile |-> "taunts.txt", tauntIntensity |-> 100,
     tauntRudeness |-> 50, tauntWhenLosing |-> 50,
     tauntUserBlunderDelta |-> 200, tauntEngineBlunderDelta |-> 200,
     tauntSmallGainMin |-> 30, tauntSmallGainMax |-> 60]

\* The taunt fields ApplyCharacterProfile copies into Glob.
ApplyTaunts(glob, taunts) ==
    [glob EXCEPT !.useTaunting = taunts.tauntingEnabled,
                 !.tauntFile = taunts.tauntFile,
                 !.tauntIntensity = taunts.tauntIntensity,
                 !.tauntRudeness = taunts.tauntRudeness,
                 !.tauntWhenLosing = taunts.tauntWhenLosing,
                 !.tauntUserBlunderDelta = taunts.tauntUserBlunderDelta,
                 !.tauntEngineBlunderDelta = taunts.tauntEngineBlunderDelta,
                 !.tauntSmallGainMin = taunts.tauntSmallGainMin,
                 !.tauntSmallGainMax = taunts.tauntSmallGainMax]

ApplyCharacterProfile(taunts) ==
    /\ Glob' = ApplyTaunts(Glob, taunts)
    /\ NoCall("ApplyCharacterProfile")
    /\ UNCHANGED <<disk, written>>

\* The game-state tracker stores the current and the previous evaluation.
SetScores(gameValue, previousValue) ==
    /\ Glob' = [Glob EXCEPT !.gameValue = gameValue, !.previousValue = previousValue]
    /\ NoCall("SetScores")
    /\ UNCHANGED <<disk, written>>

\* The configuration store switches the engine's verbose output.
SetNoisy(isNoisy) ==
    /\ Glob' = [Glob EXCEPT !.isNoisy = isNoisy]
    /\ NoCall("SetNoisy")
    /\ UNCHANGED <<disk, written>>

\* A file is written, replaced or removed on disk.
WriteFile(fileName, content) ==
    /\ disk' = [disk EXCEPT ![fileName] = content]
    /\ NoCall("WriteFile")
    /\ UNCHANGED <<Glob, written>>

FileNames == {"taunts.txt", "custom.txt"}

(***************************************************************************)
(* The initial state: nothing loaded, the default configuration, no        *)
(* previous score.                                                         *)
(***************************************************************************)
Init ==
    /\ Glob = ApplyTaunts([useTaunting |-> FALSE, tauntFile |-> "", tauntIntensity |-> 0,
                           tauntRudeness |-> 0, tauntWhenLosing |-> 0,
                           tauntUserBlunderDelta |-> 0, tauntEngineBlunderDelta |-> 0,
                           tauntSmallGainMin |-> 0, tauntSmallGainMax |-> 0,
                           isNoisy |-> FALSE, gameValue |-> 0, previousValue |-> 8888,
                           currentTaunt |-> "none"],
                          InitDefaultCharacterProfile)
    /\ s_taunts = [c \in TauntCategory |-> <<>>]
    /\ s_tauntsLoaded = FALSE
    /\ s_loadedConfigFile = ""
    /\ disk = [f \in FileNames |-> IF f = "taunts.txt" THEN "TauntsTxt" ELSE Absent]
    /\ written = <<>>
    /\ call = [op |-> "none", eventType |-> "none"]
    /\ shouldTaunt = "none"
    /\ category = "none"
    /\ rnd = <<>>
    /\ opened = <<>>
    /\ out = <<>>

(***************************************************************************)
(* Input sets.                                                             *)
(***************************************************************************)
DrawSamples == {0, 49, 50}

RandValues == {d + 100 * k : d \in DrawSamples, k \in 0..RandWraps}

Profiles(enabled, files, intensities, rudenesses, whenLosings, deltas) ==
    {[InitDefaultCharacterProfile EXCEPT
        !.tauntingEnabled = en, !.tauntFile = f, !.tauntIntensity = i,
        !.tauntRudeness = r, !.tauntWhenLosing = w,
        !.tauntUserBlunderDelta = d[1], !.tauntEngineBlunderDelta = d[2],
        !.tauntSmallGainMin = d[3], !.tauntSmallGainMax = d[4]] :
     en \in enabled, f \in files, i \in intensities, r \in rudenesses,
     w \in whenLosings, d \in deltas}

DefaultDeltas == <<200, 200, 30, 60>>

(***************************************************************************)
(* Spec: the life cycle of the corpus under every public operation.        *)
(***************************************************************************)
ProfilesMain ==
    Profiles(BOOLEAN, {"", "taunts.txt", "custom.txt", "nofile.txt"}, {100}, {50}, {100},
             {DefaultDeltas})

\* The contents a file of the model may be given.
Versions(fileName) ==
    IF fileName = "taunts.txt" THEN {Absent, "TauntsTxt", "EmptyTxt"} ELSE {Absent, "CustomTxt"}

Next ==
    \/ \E e \in {"TAUNT_CAPTURE", "TAUNT_LOSING"} : PrintTaunt(e, <<0, 0, 0>>)
    \/ AnyCategoryTaunt(<<0>>)
    \/ \E p \in ProfilesMain : ApplyCharacterProfile(p)
    \/ \E b \in BOOLEAN : SetNoisy(b)
    \/ \E f \in FileNames : \E c \in Versions(f) : WriteFile(f, c)

Spec == Init /\ [][Next]_vars

(***************************************************************************)
(* SpecClassify: PrintTaunt under every event, score pair and threshold    *)
(* configuration.                                                          *)
(***************************************************************************)
UnsetScores == {<<0, 8888>>, <<8933, 8888>>, <<9200, 8888>>}

DeltaSamples == {-201, -200, 0, 30, 31, 59, 60, 101, 200, 201}

\* <<gameValue, previousValue>>
ScorePairs == UnsetScores \cup {<<d - 150, -150>> : d \in DeltaSamples}

ProfilesClassify ==
    Profiles(BOOLEAN, {"taunts.txt"}, {100}, {50}, {100},
             {DefaultDeltas, <<100, 100, 10, 20>>})

NextClassify ==
    \/ \E e \in TauntEvents : PrintTaunt(e, <<0, 0, 0>>)
    \/ \E p \in ProfilesClassify : ApplyCharacterProfile(p)
    \/ \E s \in ScorePairs : SetScores(s[1], s[2])

SpecClassify == Init /\ [][NextClassify]_vars

(***************************************************************************)
(* SpecGate: the speak gate under every configuration, event and draw.     *)
(***************************************************************************)
ProfilesGate ==
    Profiles(BOOLEAN, {"taunts.txt"}, {-10, 0, 50, 100, 120}, {50}, {0, 50, 100},
             {DefaultDeltas})

NextGate ==
    \/ \E e \in TauntEvents : \E r1, r2 \in RandValues : PrintTaunt(e, <<r1, r2, 0>>)
    \/ \E p \in ProfilesGate : ApplyCharacterProfile(p)

SpecGate == Init /\ [][NextGate]_vars

(***************************************************************************)
(* SpecFilter: the selection under every rudeness level and draw.          *)
(***************************************************************************)
ProfilesFilter ==
    Profiles({TRUE}, {"taunts.txt", "custom.txt"}, {100}, {10, 33, 34, 50, 66, 67, 90},
             {100}, {DefaultDeltas})

NextFilter ==
    \/ \E r \in 0..MaxRand : PrintTaunt("TAUNT_WINNING", <<r>>)
    \/ \E r \in 0..MaxRand : AnyCategoryTaunt(<<r>>)
    \/ \E p \in ProfilesFilter : ApplyCharacterProfile(p)
    \/ \E c \in Versions("custom.txt") : WriteFile("custom.txt", c)
    \/ SetScores(0, 0)

SpecFilter == Init /\ [][NextFilter]_vars

(***************************************************************************)
(* SpecParse: the loader under every short corpus. custom.txt holds a      *)
(* sequence of at most MaxLines lines drawn from CorpusLines, taunts.txt   *)
(* holds no taunt line.                                                    *)
(***************************************************************************)
\* A blank line, two comments, a header, a header whose name is in the wrong
\* case, a header with an unknown tag and white space, a header without a name,
\* a header without content, a taunt line.
CorpusLines ==
    {
     <<" ">>,
     <<" ","#","c">>,
     <<";","c">>,
     <<"[","W","I","N","N","I","N","G",";","R","U","D","E","]">>,
     <<"[","w","i","n","n","i","n","g",";","P","O","L","I","T","E","]">>,
     <<"["," ","C","A","P","T","U","R","E"," ",";"," ","L","O","U","D",";","S","T","R","E","E","T"," ","]">>,
     <<"[",";","S","E","L","F","D","E","P","]">>,
     <<"[","]">>,
     <<" ","a"," ">> }

Corpora == UNION {[1..n -> CorpusLines] : n \in 0..MaxLines}

InitParse ==
    /\ Glob = ApplyTaunts([useTaunting |-> FALSE, tauntFile |-> "", tauntIntensity |-> 0,
                           tauntRudeness |-> 0, tauntWhenLosing |-> 0,
                           tauntUserBlunderDelta |-> 0, tauntEngineBlunderDelta |-> 0,
                           tauntSmallGainMin |-> 0, tauntSmallGainMax |-> 0,
                           isNoisy |-> FALSE, gameValue |-> 0, previousValue |-> 8888,
                           currentTaunt |-> "none"],
                          InitDefaultCharacterProfile)
    /\ s_taunts = [c \in TauntCategory |-> <<>>]
    /\ s_tauntsLoaded = FALSE
    /\ s_loadedConfigFile = ""
    /\ disk = [f \in FileNames |-> IF f = "taunts.txt" THEN "EmptyTxt" ELSE "Written"]
    /\ written \in Corpora
    /\ call = [op |-> "none", eventType |-> "none"]
    /\ shouldTaunt = "none"
    /\ category = "none"
    /\ rnd = <<>>
    /\ opened = <<>>
    /\ out = <<>>

ProfilesParse ==
    Profiles({TRUE}, {"custom.txt"}, {100}, {50}, {100}, {DefaultDeltas})

NextParse ==
    \/ PrintGenericTaunt(<<0>>)
    \/ \E p \in ProfilesParse : ApplyCharacterProfile(p)

SpecParse == InitParse /\ [][NextParse]_vars

(***************************************************************************)
(* What the claims speak of.                                               *)
(***************************************************************************)
\* The last step was a PrintTaunt call whose speak gate passed.
Spoke == call.op = "PrintTaunt" /\ shouldTaunt = TRUE

Delta == Glob.gameValue - Glob.previousValue

\* The taunt lines the last call wrote.
TauntLines == SelectSeq(out, LAMBDA l : l.kind = "taunt")

\* The last call selected from cat: it wrote one line of cat, or none when cat
\* is empty.
DrawnFrom(cat) ==
    /\ category = cat
    /\ Len(TauntLines) = IF s_taunts[cat] = <<>> THEN 0 ELSE 1
    /\ \A i \in 1..Len(TauntLines) :
          \E j \in 1..Len(s_taunts[cat]) : s_taunts[cat][j].text = TauntLines[i].text

\* The category a raw event maps to when no delta rule fires.
DirectCategory(eventType) ==
    CASE eventType = "TAUNT_CAPTURE" -> "CAPTURE"
      [] eventType = "TAUNT_WINNING" -> "WINNING"
      [] eventType = "TAUNT_ADVANTAGE" -> "ADVANTAGE"
      [] eventType = "TAUNT_BALANCE" -> "BALANCE"
      [] eventType = "TAUNT_DISADVANTAGE" -> "DISADVANTAGE"
      [] eventType = "TAUNT_LOSING" -> "LOSING"
      [] eventType = "TAUNT_CRUSHING" -> "CRUSHING"
      [] OTHER -> "GENERAL"

DefaultThresholds ==
    /\ Glob.tauntUserBlunderDelta = 200
    /\ Glob.tauntEngineBlunderDelta = 200

DefaultWindow ==
    /\ Glob.tauntSmallGainMin = 30
    /\ Glob.tauntSmallGainMax = 60

(***************************************************************************)
(* C1. With the blunder threshold at its default of 200, every PrintTaunt  *)
(* call that passes the gate with a defined previous score draws from      *)
(* user-blunder when delta > 200 and from engine-blunder when delta < -200, *)
(* whatever the raw event type.                                            *)
(***************************************************************************)
C1_BlunderOverridesEvent ==
    (Spoke /\ Glob.previousValue # 8888 /\ DefaultThresholds) =>
        /\ Delta > 200 => DrawnFrom("USER_BLUNDER")
        /\ Delta < -200 => DrawnFrom("ENGINE_BLUNDER")

C1_Witness ==
    /\ Spoke /\ Glob.previousValue # 8888 /\ DefaultThresholds
    /\ call.eventType = "TAUNT_BALANCE"
    /\ Delta = 201
    /\ category = "USER_BLUNDER"
    /\ Len(TauntLines) = 1

(***************************************************************************)
(* C2. When the previous score is the unset marker, every PrintTaunt call  *)
(* that passes the gate draws from general, for every raw event type and   *)
(* every current score.                                                    *)
(***************************************************************************)
C2_FirstEventGeneral ==
    (Spoke /\ Glob.previousValue = 8888) => DrawnFrom("GENERAL")

C2_Witness ==
    /\ Spoke /\ Glob.previousValue = 8888
    /\ call.eventType = "TAUNT_CRUSHING"
    /\ Glob.gameValue = 9200
    /\ category = "GENERAL"
    /\ Len(TauntLines) = 1

(***************************************************************************)
(* C3. With the window bounds 30 and 60 and a defined previous score, a    *)
(* balance event resolves to escape and an advantage event to gaining      *)
(* exactly when 30 < delta < 60; at delta = 30 or 60, and for every other  *)
(* raw event inside the window, the category is the raw event's direct one. *)
(***************************************************************************)
C3_SmallGainWindowOpen ==
    (Spoke /\ Glob.previousValue # 8888 /\ DefaultWindow) =>
        LET inside == 30 < Delta /\ Delta < 60
            e      == call.eventType
        IN  /\ e = "TAUNT_BALANCE" => (category = "ESCAPE" <=> inside)
            /\ e = "TAUNT_ADVANTAGE" => (category = "GAINING" <=> inside)
            /\ (Delta = 30 \/ Delta = 60) => DrawnFrom(DirectCategory(e))
            /\ (inside /\ e \notin {"TAUNT_BALANCE", "TAUNT_ADVANTAGE"})
                  => DrawnFrom(DirectCategory(e))

C3_Witness ==
    /\ Spoke /\ Glob.previousValue # 8888 /\ DefaultWindow
    /\ call.eventType = "TAUNT_BALANCE"
    /\ Delta = 31
    /\ category = "ESCAPE"
    /\ Len(TauntLines) = 1

(***************************************************************************)
(* C4. The classifier uses the configured thresholds: for the configured   *)
(* tauntUserBlunderDelta / tauntEngineBlunderDelta T and window (lo, hi),  *)
(* delta > T resolves to user-blunder, delta < -T to engine-blunder, and   *)
(* lo < delta < hi escalates balance to escape and advantage to gaining.   *)
(***************************************************************************)
C4_ConfiguredThresholdsUsed ==
    (Spoke /\ Glob.previousValue # 8888) =>
        LET inside == Glob.tauntSmallGainMin < Delta /\ Delta < Glob.tauntSmallGainMax
            user   == Delta > Glob.tauntUserBlunderDelta
            engine == Delta < -Glob.tauntEngineBlunderDelta
        IN  /\ user => category = "USER_BLUNDER"
            /\ engine => category = "ENGINE_BLUNDER"
            /\ (~user /\ ~engine /\ inside /\ call.eventType = "TAUNT_BALANCE")
                  => category = "ESCAPE"
            /\ (~user /\ ~engine /\ inside /\ call.eventType = "TAUNT_ADVANTAGE")
                  => category = "GAINING"

(***************************************************************************)
(* C5. The speak gate returns false when the enable flag is off or         *)
(* intensity <= 0; for a losing-type event with speak-while-losing < 100   *)
(* it returns false whenever the first draw is >= speak-while-losing,      *)
(* whatever the intensity; in every remaining case it returns true when    *)
(* intensity >= 100 and otherwise exactly when the next draw is below the  *)
(* intensity.                                                              *)
(***************************************************************************)
LosingEvent == call.eventType \in {"TAUNT_DISADVANTAGE", "TAUNT_LOSING"}

Dampened == LosingEvent /\ Glob.tauntWhenLosing < 100

C5_SpeakGateDecision ==
    call.op = "PrintTaunt" =>
        IF ~Glob.useTaunting \/ Glob.tauntIntensity <= 0 THEN shouldTaunt = FALSE
        ELSE IF Dampened /\ (rnd[1] % 100) >= Glob.tauntWhenLosing THEN shouldTaunt = FALSE
        ELSE IF Glob.tauntIntensity >= 100 THEN shouldTaunt = TRUE
        ELSE shouldTaunt = ((rnd[IF Dampened THEN 2 ELSE 1] % 100) < Glob.tauntIntensity)

C5_Witness ==
    /\ call.op = "PrintTaunt"
    /\ call.eventType = "TAUNT_LOSING"
    /\ Glob.useTaunting
    /\ Glob.tauntIntensity = 100
    /\ Glob.tauntWhenLosing = 0
    /\ shouldTaunt = FALSE

(***************************************************************************)
(* C6. While the global enable flag is off, no public operation (PrintTaunt *)
(* or a per-category operation) writes a taunt line.                       *)
(***************************************************************************)
C6_FlagOffNeverSpeaks ==
    (call.op \in PublicOps /\ ~Glob.useTaunting) => TauntLines = <<>>

(***************************************************************************)
(* C7. An entry with neither RUDE nor POLITE passes at every rudeness; an  *)
(* entry with RUDE is rejected exactly when rudeness <= 33; an entry with  *)
(* POLITE is rejected exactly when rudeness >= 67; at 34..66 every entry   *)
(* passes. Hence, in a category that also has untagged entries, no RUDE    *)
(* entry is emitted at rudeness 10 and no POLITE entry at rudeness 90.     *)
(***************************************************************************)
Untagged(e) == e.tags \cap {"RUDE", "POLITE"} = {}

\* The entries of cat whose text the last call wrote.
Emitted(cat) ==
    {j \in 1..Len(s_taunts[cat]) :
        \E i \in 1..Len(TauntLines) : TauntLines[i].text = s_taunts[cat][j].text}

AllEntries ==
    UNION {{s_taunts[c][j] : j \in 1..Len(s_taunts[c])} : c \in TauntCategory}

C7_PolarityNeverEmitted ==
    (/\ call.op \in PublicOps
     /\ category # "none"
     /\ \E j \in 1..Len(s_taunts[category]) : Untagged(s_taunts[category][j]))
    => \A j \in Emitted(category) :
          /\ Glob.tauntRudeness = 10 => "RUDE" \notin s_taunts[category][j].tags
          /\ Glob.tauntRudeness = 90 => "POLITE" \notin s_taunts[category][j].tags

\* C7 as stated.
C7_RudenessFilterExact ==
    /\ \A e \in AllEntries :
          /\ Untagged(e) => PassRudenessFilter(e)
          /\ "RUDE" \in e.tags => (~PassRudenessFilter(e) <=> Glob.tauntRudeness <= 33)
          /\ "POLITE" \in e.tags => (~PassRudenessFilter(e) <=> Glob.tauntRudeness >= 67)
          /\ (Glob.tauntRudeness >= 34 /\ Glob.tauntRudeness <= 66) => PassRudenessFilter(e)
    /\ C7_PolarityNeverEmitted

\* C7 amended: an entry carrying only RUDE is rejected exactly when rudeness <= 33,
\* one carrying only POLITE exactly when rudeness >= 67, one carrying both exactly
\* when rudeness <= 33 or rudeness >= 67; the rest as stated.
C7_RudenessFilterAmended ==
    /\ \A e \in AllEntries :
          /\ Untagged(e) => PassRudenessFilter(e)
          /\ ("RUDE" \in e.tags /\ "POLITE" \notin e.tags)
                => (~PassRudenessFilter(e) <=> Glob.tauntRudeness <= 33)
          /\ ("POLITE" \in e.tags /\ "RUDE" \notin e.tags)
                => (~PassRudenessFilter(e) <=> Glob.tauntRudeness >= 67)
          /\ ("RUDE" \in e.tags /\ "POLITE" \in e.tags)
                => (~PassRudenessFilter(e)
                      <=> (Glob.tauntRudeness <= 33 \/ Glob.tauntRudeness >= 67))
          /\ (Glob.tauntRudeness >= 34 /\ Glob.tauntRudeness <= 66) => PassRudenessFilter(e)
    /\ C7_PolarityNeverEmitted

C7_Witness ==
    /\ call.op = "PrintWinningTaunt"
    /\ Glob.tauntRudeness = 90
    /\ \E j \in 1..Len(s_taunts["WINNING"]) :
          /\ s_taunts["WINNING"][j].tags = {"RUDE", "POLITE"}
          /\ ~PassRudenessFilter(s_taunts["WINNING"][j])
    /\ \E j \in Emitted("WINNING") : s_taunts["WINNING"][j].tags = {"RUDE"}

(***************************************************************************)
(* C8. For every category with at least one loaded entry and every         *)
(* rudeness level, selection emits exactly one line, the text of an entry  *)
(* of that category; the entry passes the rudeness filter whenever some    *)
(* entry of the category passes it.                                        *)
(***************************************************************************)
SomePass(v) == \E k \in 1..Len(v) : PassRudenessFilter(v[k])

C8_FilterNeverSilences ==
    (call.op \in PublicOps /\ category # "none" /\ s_taunts[category] # <<>>) =>
        /\ Len(TauntLines) = 1
        /\ \E j \in 1..Len(s_taunts[category]) :
              /\ s_taunts[category][j].text = TauntLines[1].text
              /\ SomePass(s_taunts[category]) => PassRudenessFilter(s_taunts[category][j])

C8_Witness ==
    /\ call.op = "PrintCrushingTaunt"
    /\ Glob.tauntRudeness = 10
    /\ Len(s_taunts["CRUSHING"]) = 2
    /\ ~SomePass(s_taunts["CRUSHING"])
    /\ Len(TauntLines) = 1
    /\ TauntLines[1].text = s_taunts["CRUSHING"][2].text

(***************************************************************************)
(* C9. A call that selects from a category with zero loaded entries writes *)
(* nothing to the output channel, for every configuration, including the   *)
(* call on which the corpus is loaded.                                     *)
(***************************************************************************)
SelectedEmpty ==
    call.op \in PublicOps /\ category # "none" /\ s_taunts[category] = <<>>

\* C9 as stated.
C9_EmptyCategoryWritesNothing == SelectedEmpty => out = <<>>

\* C9 amended: no taunt line; the load report is written when the call
\* loads the corpus and Glob.isNoisy is set, and only then.
C9_EmptyCategoryNoTaunt ==
    SelectedEmpty =>
        /\ TauntLines = <<>>
        /\ out # <<>> <=> (Glob.isNoisy /\ opened # <<>>)
        /\ out # <<>> => (Len(out) = 1 /\ out[1].kind \in {"loaded", "load_failed"})

C9_Witness ==
    /\ SelectedEmpty
    /\ call.op = "PrintDisdvantageTaunt"
    /\ Glob.isNoisy
    /\ opened = <<"taunts.txt">>
    /\ Len(out) = 1
    /\ out[1].kind = "loaded"

(***************************************************************************)
(* C10. The corpus file is read on the first call and afterwards only on a *)
(* call where the configured path differs from the path recorded at the    *)
(* last load; while the configured path is unchanged the index is never    *)
(* modified and no file is opened, even if the earlier load failed or the  *)
(* file changed on disk.                                                   *)
(***************************************************************************)
UpToDate == s_tauntsLoaded /\ s_loadedConfigFile = Glob.tauntFile

C10_LoadOncePerPath ==
    [][/\ UpToDate =>
            /\ s_taunts' = s_taunts
            /\ opened' = <<>>
            /\ s_tauntsLoaded'
            /\ s_loadedConfigFile' = s_loadedConfigFile
       /\ (~UpToDate /\ call'.op \in PublicOps) =>
            /\ opened' # <<>>
            /\ opened'[1] = (IF Glob.tauntFile = "" THEN "taunts.txt" ELSE Glob.tauntFile)
            /\ s_tauntsLoaded'
            /\ s_loadedConfigFile' = Glob.tauntFile]_vars

\* A call finds the path unchanged after a failed load, with the file now on disk.
C10_Witness ==
    /\ call.op \in PublicOps
    /\ UpToDate
    /\ Glob.tauntFile = "taunts.txt"
    /\ opened = <<>>
    /\ SumLen(s_taunts, TauntCategory) = 0
    /\ disk["taunts.txt"] = "TauntsTxt"

(***************************************************************************)
(* C11. A reload triggered by a changed configured path is a full replace  *)
(* with no merge: after the call every category holds exactly the entries  *)
(* parsed from the file that was loaded for the new path and no entry of   *)
(* the previously loaded corpus, and if neither the new path nor the       *)
(* default file opens, every category is empty.                            *)
(***************************************************************************)
NoEntries == [c \in TauntCategory |-> <<>>]

\* The index a parse of the file builds from nothing.
ParsedAlone(fileName) ==
    LoadLines([current |-> "GENERAL", currentTags |-> {}, taunts |-> NoEntries],
              FileLines(disk[fileName])).taunts

Requested == IF Glob.tauntFile = "" THEN "taunts.txt" ELSE Glob.tauntFile

\* The index a reload for the configured path has to leave.
ReloadedIndex ==
    IF CanOpen(Requested) THEN ParsedAlone(Requested)
    ELSE IF CanOpen("taunts.txt") THEN ParsedAlone("taunts.txt")
    ELSE NoEntries

PathChanged == s_tauntsLoaded /\ s_loadedConfigFile # Glob.tauntFile

Texts(taunts) ==
    UNION {{taunts[c][k].text : k \in 1..Len(taunts[c])} : c \in TauntCategory}

C11_ReloadReplaces ==
    [][(PathChanged /\ call'.op \in PublicOps) =>
          /\ s_taunts' = ReloadedIndex
          /\ Texts(s_taunts') \cap (Texts(s_taunts) \ Texts(ReloadedIndex)) = {}]_vars

\* A call has replaced a loaded corpus by the corpus of another path.
C11_Witness ==
    /\ call.op \in PublicOps
    /\ opened = <<"custom.txt">>
    /\ s_loadedConfigFile = "custom.txt"
    /\ disk["taunts.txt"] = "TauntsTxt"
    /\ Len(s_taunts["GENERAL"]) = 2
    /\ s_taunts["CAPTURE"] = <<>>
    /\ s_taunts["LOSING"] = <<[text |-> <<"l","2">>, tags |-> {"SELFDEP"}]>>

(***************************************************************************)
(* C12. On a load, a configured path that cannot be opened and is not the  *)
(* default name "taunts.txt" is followed by exactly one attempt on the     *)
(* default file; an empty path or the default name gets no second attempt. *)
(* When every attempt fails the index is left empty, the call returns as   *)
(* any other, and every later call emits nothing.                          *)
(***************************************************************************)
\* The attempts a load for the configured path has to make.
Attempts ==
    IF ~CanOpen(Requested) /\ Requested # "taunts.txt"
    THEN <<Requested, "taunts.txt">>
    ELSE <<Requested>>

AllFailed(files) == \A i \in 1..Len(files) : ~CanOpen(files[i])

\* The index is up to date and empty: the last load found no file, or no entry.
LoadedEmpty == UpToDate /\ s_taunts = NoEntries

C12_FallbackPolicy ==
    [][call'.op \in PublicOps =>
          /\ ~UpToDate =>
                /\ opened' = Attempts
                /\ s_tauntsLoaded' /\ s_loadedConfigFile' = Glob.tauntFile
                /\ AllFailed(Attempts) =>
                      /\ s_taunts' = NoEntries
                      /\ SelectSeq(out', LAMBDA l : l.kind = "taunt") = <<>>
          /\ LoadedEmpty =>
                /\ out' = <<>>
                /\ opened' = <<>>
                /\ s_taunts' = NoEntries
                /\ call'.op # "PrintTaunt" => rnd' = <<>>]_vars

\* A call after both attempts of the last load failed, with both files on
\* disk again.
C12_LaterCallSilent ==
    /\ call.op \in PublicOps
    /\ category # "none"
    /\ Glob.tauntFile = "custom.txt"
    /\ LoadedEmpty
    /\ opened = <<>>
    /\ out = <<>>
    /\ disk["taunts.txt"] = "TauntsTxt"
    /\ disk["custom.txt"] = "CustomTxt"

\* A call whose load tried the configured path, then the default name, and
\* opened neither.
C12_Witness ==
    /\ call.op \in PublicOps
    /\ opened = <<"nofile.txt", "taunts.txt">>
    /\ disk["taunts.txt"] = Absent
    /\ s_taunts = NoEntries
    /\ Glob.isNoisy
    /\ out = <<[kind |-> "load_failed", requested |-> "nofile.txt",
                used |-> "taunts.txt", total |-> 0]>>

(***************************************************************************)
(* The corpus format as the claims describe it, line by line.              *)
(***************************************************************************)
CategoryNames ==
    [GENERAL        |-> <<"G","E","N","E","R","A","L">>,
     CAPTURE        |-> <<"C","A","P","T","U","R","E">>,
     USER_BLUNDER   |-> <<"U","S","E","R","_","B","L","U","N","D","E","R">>,
     ENGINE_BLUNDER |-> <<"E","N","G","I","N","E","_","B","L","U","N","D","E","R">>,
     LOSING         |-> <<"L","O","S","I","N","G">>,
     WINNING        |-> <<"W","I","N","N","I","N","G">>,
     CRUSHING       |-> <<"C","R","U","S","H","I","N","G">>,
     ADVANTAGE      |-> <<"A","D","V","A","N","T","A","G","E">>,
     BALANCE        |-> <<"B","A","L","A","N","C","E">>,
     DISADVANTAGE   |-> <<"D","I","S","A","D","V","A","N","T","A","G","E">>,
     ESCAPE         |-> <<"E","S","C","A","P","E">>,
     GAINING        |-> <<"G","A","I","N","I","N","G">>]

TagNames ==
    [RUDE    |-> <<"R","U","D","E">>,
     POLITE  |-> <<"P","O","L","I","T","E">>,
     SELFDEP |-> <<"S","E","L","F","D","E","P">>,
     STREET  |-> <<"S","T","R","E","E","T">>]

Max(S) == CHOOSE x \in S : \A y \in S : y <= x

\* A line is read without the white space around it.
LineKind(raw) ==
    LET t == Trim(raw)
    IN  IF t = <<>> THEN "blank"
        ELSE IF t[1] \in {"#", ";"} THEN "comment"
        ELSE IF t[1] = "[" /\ t[Len(t)] = "]" THEN "header"
        ELSE "entry"

\* What stands between the brackets of a header.
HeaderContent(raw) ==
    LET t == Trim(raw)
    IN  Trim(SubSeq(t, 2, Len(t) - 1))

Separators(content) == {i \in 1..Len(content) : content[i] = ";"}

\* The field of content behind the separator at p, or the first field for p = 0.
Field(content, p) ==
    LET later == {q \in Separators(content) : q > p}
    IN  Trim(SubSeq(content, p + 1, IF later = {} THEN Len(content) ELSE Min(later) - 1))

HeaderName(raw) == Field(HeaderContent(raw), 0)

\* The recognized tags among the fields behind the name.
HeaderTags(raw) ==
    LET content == HeaderContent(raw)
    IN  {t \in TauntTag : \E p \in Separators(content) : Field(content, p) = TagNames[t]}

\* A field behind the name that is no tag name.
HasUnknownTag(raw) ==
    LET content == HeaderContent(raw)
    IN  \E p \in Separators(content) :
            /\ Field(content, p) # <<>>
            /\ \A t \in TauntTag : Field(content, p) # TagNames[t]

Recognized(name) == \E c \in TauntCategory : CategoryNames[c] = name

NamedCategory(name) ==
    IF Recognized(name) THEN CHOOSE c \in TauntCategory : CategoryNames[c] = name
    ELSE "GENERAL"

Headers(lines, i) == {j \in 1..(i - 1) : LineKind(lines[j]) = "header"}

\* The header that sets the category of line i, and the one that sets its tags:
\* the most recent header, or (every = FALSE) the most recent one that has a
\* name, respectively has any content. The empty set before the first of them.
NameHeaders(lines, i, every) ==
    {j \in Headers(lines, i) : every \/ HeaderName(lines[j]) # <<>>}

TagHeaders(lines, i, every) ==
    {j \in Headers(lines, i) : every \/ HeaderContent(lines[j]) # <<>>}

ActiveCategory(lines, i, every) ==
    LET H == NameHeaders(lines, i, every)
    IN  IF H = {} THEN "GENERAL" ELSE NamedCategory(HeaderName(lines[Max(H)]))

ActiveTags(lines, i, every) ==
    LET H == TagHeaders(lines, i, every)
    IN  IF H = {} THEN {} ELSE HeaderTags(lines[Max(H)])

\* The taunt lines of category c, by line number.
EntryLines(lines, c, every) ==
    SelectSeq([i \in 1..Len(lines) |-> i],
              LAMBDA i : LineKind(lines[i]) = "entry" /\ ActiveCategory(lines, i, every) = c)

\* The index the format gives for the lines.
FormatIndex(lines, every) ==
    [c \in TauntCategory |->
        LET E == EntryLines(lines, c, every)
        IN  [k \in 1..Len(E) |->
                [text |-> Trim(lines[E[k]]), tags |-> ActiveTags(lines, E[k], every)]]]

\* The last call has loaded the index from a file, and the lines of that file.
LoadedFromFile ==
    /\ call.op \in PublicOps
    /\ opened # <<>>
    /\ CanOpen(opened[Len(opened)])

LoadedLines == FileLines(disk[opened[Len(opened)]])

(***************************************************************************)
(* C13. Each line that is not blank, not a comment and not a header        *)
(* becomes exactly one entry, in the category of the most recent header    *)
(* and with exactly that header's tag set; lines before the first header   *)
(* go to general with no tags; blank lines, comments and headers produce   *)
(* no entry.                                                               *)
(***************************************************************************)
\* C13 as stated: every header sets the category and replaces the tag set.
C13_SectionParsing ==
    LoadedFromFile => \A c \in TauntCategory :
        s_taunts[c] = FormatIndex(LoadedLines, TRUE)[c]

\* C13 amended: a header without a name leaves the category, a header without
\* content leaves the category and the tag set.
C13_SectionParsingAmended ==
    LoadedFromFile => \A c \in TauntCategory :
        s_taunts[c] = FormatIndex(LoadedLines, FALSE)[c]

\* A header followed by three taunt lines has been loaded.
C13_Witness ==
    /\ call.op = "PrintGenericTaunt"
    /\ opened = <<"custom.txt">>
    /\ written = << <<"[","W","I","N","N","I","N","G",";","R","U","D","E","]">>,
                    <<" ","a"," ">>, <<" ","a"," ">>, <<" ","a"," ">> >>
    /\ s_taunts["WINNING"] = [k \in 1..3 |-> [text |-> <<"a">>, tags |-> {"RUDE"}]]
    /\ SumLen(s_taunts, TauntCategory) = 3

\* Taunt lines behind a header without content keep the tags of the header before.
C13_EmptyHeaderLoaded ==
    /\ opened = <<"custom.txt">>
    /\ written = << <<"[","W","I","N","N","I","N","G",";","R","U","D","E","]">>,
                    <<"[","]">>, <<" ","a"," ">> >>
    /\ s_taunts["WINNING"] = <<[text |-> <<"a">>, tags |-> {"RUDE"}]>>

(***************************************************************************)
(* C14. A header whose name is not a recognized category name (exact,      *)
(* case-sensitive match), a malformed or empty name included, makes        *)
(* general the active category, so the lines behind it are captured under  *)
(* general; an unrecognized tag contributes no tag and leaves the          *)
(* recognized tags of the same header as they are.                         *)
(***************************************************************************)
\* Every category holds as many entries as the lines give it.
CapturedUnder(lines, every) ==
    \A c \in TauntCategory : Len(s_taunts[c]) = Len(EntryLines(lines, c, every))

\* The entries behind a header with an unrecognized tag carry the recognized
\* tags of that header, all of them and no other.
UnknownTagsDropped(lines, every) ==
    \A c \in TauntCategory :
        LET E == EntryLines(lines, c, every)
        IN  \A k \in 1..Len(E) :
                LET H == TagHeaders(lines, E[k], FALSE)
                IN  (H # {} /\ HasUnknownTag(lines[Max(H)])) =>
                        s_taunts[c][k].tags = HeaderTags(lines[Max(H)])

\* C14 as stated: a header whose name is empty makes general the category.
C14_UnknownNamesFold ==
    LoadedFromFile =>
        /\ CapturedUnder(LoadedLines, TRUE)
        /\ UnknownTagsDropped(LoadedLines, TRUE)

\* C14 amended: a header whose name is empty leaves the category as it was.
C14_UnknownNamesFoldAmended ==
    LoadedFromFile =>
        /\ CapturedUnder(LoadedLines, FALSE)
        /\ UnknownTagsDropped(LoadedLines, FALSE)

\* A header with an unknown tag and a header with a name in the wrong case
\* have been loaded, each with a taunt line behind it.
C14_Witness ==
    /\ call.op = "PrintGenericTaunt"
    /\ opened = <<"custom.txt">>
    /\ written = << <<"["," ","C","A","P","T","U","R","E"," ",";"," ","L","O","U","D",";","S","T","R","E","E","T"," ","]">>,
                    <<" ","a"," ">>,
                    <<"[","w","i","n","n","i","n","g",";","P","O","L","I","T","E","]">>,
                    <<" ","a"," ">> >>
    /\ s_taunts["CAPTURE"] = <<[text |-> <<"a">>, tags |-> {"STREET"}]>>
    /\ s_taunts["GENERAL"] = <<[text |-> <<"a">>, tags |-> {"POLITE"}]>>
    /\ s_taunts["WINNING"] = <<>>

\* Taunt lines behind a header without a name stay in the category before.
C14_EmptyNameLoaded ==
    /\ opened = <<"custom.txt">>
    /\ written = << <<"[","W","I","N","N","I","N","G",";","R","U","D","E","]">>,
                    <<"[",";","S","E","L","F","D","E","P","]">>, <<" ","a"," ">> >>
    /\ s_taunts["WINNING"] = <<[text |-> <<"a">>, tags |-> {"SELFDEP"}]>>
    /\ s_taunts["GENERAL"] = <<>>

====
